---- MODULE Spec2Model ----
(***************************************************************************)
(* A model of PosterizerPro (src/unnamed/part_000): the stylize pipeline   *)
(* and the React wiring that re-runs it, the Posterizer, the Sobel edge    *)
(* detector, the k-means palette extractor, the parameter advisor and the  *)
(* palette transfer.                                                       *)
(*                                                                         *)
(* Real numbers are exact rationals <<n, d>> (d > 0, lowest terms) or      *)
(* fixed-point integers in units of 1/SCALE; the source computes them in   *)
(* IEEE doubles, so a value that lies exactly on a rounding boundary may   *)
(* differ from the source by one unit in the last place.                   *)
(***************************************************************************)
EXTENDS Integers, Sequences, FiniteSets, TLC

(***************************************************************************)
(* Bounds of the model.                                                    *)
(***************************************************************************)
MaxPzPixels == 3
MaxLevels == 6
AdvisorGrid == 4
MaxSobelPixels == 9
MaxTwoTonePixels == 12
MaxHalfSide == 6
MaxPool == 3
MaxK == 3
MaxSkew == 511

(***************************************************************************)
(* Arithmetic helpers.                                                     *)
(***************************************************************************)
Abs(x) == IF x < 0 THEN -x ELSE x
Max2(a, b) == IF a >= b THEN a ELSE b
Min2(a, b) == IF a <= b THEN a ELSE b

RECURSIVE Gcd(_, _)
Gcd(a, b) == IF b = 0 THEN a ELSE Gcd(b, a % b)

\* The rational n/d in lowest terms with a positive denominator.
Rat(n, d) ==
    LET s == IF d < 0 THEN -1 ELSE 1
        g == Gcd(Abs(n), Abs(d))
    IN  IF n = 0 THEN <<0, 1>> ELSE <<s * (n \div g), s * (d \div g)>>

RInt(n) == <<n, 1>>
RAdd(x, y) ==
    LET g == Gcd(x[2], y[2])
    IN  Rat(x[1] * (y[2] \div g) + y[1] * (x[2] \div g), x[2] * (y[2] \div g))
RNeg(x) == <<-x[1], x[2]>>
RSub(x, y) == RAdd(x, RNeg(y))
RMul(x, y) ==
    LET a == Rat(x[1], y[2])
        b == Rat(y[1], x[2])
    IN  <<a[1] * b[1], a[2] * b[2]>>
RDiv(x, y) == RMul(x, Rat(y[2], y[1]))
RLt(x, y) == RSub(x, y)[1] < 0
RLe(x, y) == RSub(x, y)[1] <= 0
REq(x, y) == x = y
RFloor(x) == x[1] \div x[2]
RMax(x, y) == IF RLt(x, y) THEN y ELSE x
RMin(x, y) == IF RLt(y, x) THEN y ELSE x

\* Math.round: the nearest integer, a tie going up.
MathRound(x) == (2 * x[1] + x[2]) \div (2 * x[2])

\* The conversion of a number stored into a Uint8ClampedArray: the nearest
\* integer, a tie going to the even one, clamped to 0..255.
ToUint8Clamped(x) ==
    LET f == RFloor(x)
        twice == 2 * (x[1] - f * x[2])
        r == IF twice < x[2] THEN f
             ELSE IF twice > x[2] THEN f + 1
             ELSE IF f % 2 = 0 THEN f ELSE f + 1
    IN  Max2(0, Min2(255, r))

(***************************************************************************)
(* ColorSpace.                                                             *)
(***************************************************************************)
clamp01(v) == RMax(RInt(0), RMin(RInt(1), v))

rgbToHsl(r0, g0, b0) ==
    LET r == Rat(r0, 255)
        g == Rat(g0, 255)
        b == Rat(b0, 255)
        max == RMax(r, RMax(g, b))
        min == RMin(r, RMin(g, b))
        l == RDiv(RAdd(max, min), RInt(2))
        d == RSub(max, min)
        s == IF RLt(Rat(1, 2), l)
             THEN RDiv(d, RSub(RSub(RInt(2), max), min))
             ELSE RDiv(d, RAdd(max, min))
        h6 == IF max = r
              THEN RAdd(RDiv(RSub(g, b), d), RInt(IF RLt(g, b) THEN 6 ELSE 0))
              ELSE IF max = g
              THEN RAdd(RDiv(RSub(b, r), d), RInt(2))
              ELSE RAdd(RDiv(RSub(r, g), d), RInt(4))
    IN  IF max = min
        THEN [h |-> RInt(0), s |-> RInt(0), l |-> l]
        ELSE [h |-> RDiv(h6, RInt(6)), s |-> s, l |-> l]

hue2rgb(p, q, t0) ==
    LET t1 == IF RLt(t0, RInt(0)) THEN RAdd(t0, RInt(1)) ELSE t0
        t == IF RLt(RInt(1), t1) THEN RSub(t1, RInt(1)) ELSE t1
    IN  IF RLt(t, Rat(1, 6))
        THEN RAdd(p, RMul(RMul(RSub(q, p), RInt(6)), t))
        ELSE IF RLt(t, Rat(1, 2))
        THEN q
        ELSE IF RLt(t, Rat(2, 3))
        THEN RAdd(p, RMul(RMul(RSub(q, p), RSub(Rat(2, 3), t)), RInt(6)))
        ELSE p

hslToRgb(h, s, l) ==
    LET q == IF RLt(l, Rat(1, 2))
             THEN RMul(l, RAdd(RInt(1), s))
             ELSE RSub(RAdd(l, s), RMul(l, s))
        p == RSub(RMul(RInt(2), l), q)
        r == IF s = RInt(0) THEN l ELSE hue2rgb(p, q, RAdd(h, Rat(1, 3)))
        g == IF s = RInt(0) THEN l ELSE hue2rgb(p, q, h)
        b == IF s = RInt(0) THEN l ELSE hue2rgb(p, q, RSub(h, Rat(1, 3)))
    IN  [r |-> MathRound(RMul(r, RInt(255))),
         g |-> MathRound(RMul(g, RInt(255))),
         b |-> MathRound(RMul(b, RInt(255)))]

(***************************************************************************)
(* Posterizer.  A buffer is a sequence of pixels <<r, g, b, a>>.           *)
(***************************************************************************)
PosterStep(levels) == Rat(255, Max2(2, levels - 1))

\* d[i] = Math.round(v / step) * step, stored into the Uint8ClampedArray.
PosterizeChannel(v, step) ==
    ToUint8Clamped(RMul(RInt(MathRound(RDiv(RInt(v), step))), step))

PosterizePixel(px, levels, satBoost) ==
    LET hsl == rgbToHsl(px[1], px[2], px[3])
        s2 == clamp01(RAdd(hsl.s, RMul(satBoost, RSub(RInt(1), hsl.s))))
        rgb == hslToRgb(hsl.h, s2, hsl.l)
        step == PosterStep(levels)
    IN  <<PosterizeChannel(rgb.r, step), PosterizeChannel(rgb.g, step),
          PosterizeChannel(rgb.b, step), px[4]>>

posterizeAndSaturate(data, levels, satBoost) ==
    [i \in 1..Len(data) |-> PosterizePixel(data[i], levels, satBoost)]

PzColours ==
    {<<0, 0, 0, 255>>, <<128, 128, 128, 255>>, <<255, 255, 255, 255>>,
     <<200, 30, 60, 128>>, <<10, 200, 90, 0>>}
PzSatBoosts == {Rat(0, 1), Rat(3, 10), Rat(1, 2), Rat(1, 1)}
PzBuffers == UNION {[1..n -> PzColours] : n \in 1..MaxPzPixels}

(***************************************************************************)
(* ParameterAdvisor.  A palette is a sequence of colours [r, g, b].        *)
(***************************************************************************)
RGB(r, g, b) == [r |-> r, g |-> g, b |-> b]

\* Whether a colour of hue h and saturation s counts as warm (kind 1) or as
\* cool (kind 2).
HueHit(hsl, kind) ==
    LET warm == RLt(hsl.h, Rat(1, 6)) \/ RLt(Rat(5, 6), hsl.h)
    IN  /\ ~RLt(hsl.s, Rat(15, 100))
        /\ IF kind = 1 THEN warm
           ELSE ~warm /\ RLt(Rat(1, 3), hsl.h) /\ RLt(hsl.h, Rat(2, 3))

RECURSIVE HueCount(_, _, _)
\* The warm (kind 1) or cool (kind 2) entries of palette[i..].
HueCount(palette, i, kind) ==
    IF i > Len(palette) THEN 0
    ELSE (IF HueHit(rgbToHsl(palette[i].r, palette[i].g, palette[i].b), kind)
          THEN 1 ELSE 0) + HueCount(palette, i + 1, kind)

\* if (warm > cool * 1.2) "warm"; if (cool > warm * 1.2) "cool"; "mixed".
HueBiasOf(warm, cool) ==
    IF RLt(RMul(RInt(cool), Rat(12, 10)), RInt(warm)) THEN "warm"
    ELSE IF RLt(RMul(RInt(warm), Rat(12, 10)), RInt(cool)) THEN "cool"
    ELSE "mixed"

estimateHueBias(palette) ==
    HueBiasOf(HueCount(palette, 1, 1), HueCount(palette, 1, 2))

\* The motif pack suggested for a hue bias.
MotifFor(hueBias) ==
    IF hueBias = "cool" THEN "waves"
    ELSE IF hueBias = "warm" THEN "flames"
    ELSE "psychedelia"

suggestControls(ctx) ==
    [outlineWeight |->
         clamp01(RAdd(Rat(4, 10), RMul(ctx.edgeDensity, RInt(2)))),
     saturationBoost |->
         clamp01(RAdd(Rat(2, 10),
                      RMul(RSub(Rat(6, 10), ctx.meanSaturation), Rat(6, 10)))),
     halftoneDensity |->
         clamp01(RAdd(Rat(5, 100), RMul(ctx.contrastIndex, Rat(6, 10)))),
     burstStrength |->
         clamp01(RAdd(Rat(3, 10), RMul(ctx.contrastIndex, Rat(5, 10)))),
     motifPack |-> MotifFor(estimateHueBias(ctx.palette)),
     styleIntensity |->
         clamp01(RAdd(Rat(6, 10), RMul(ctx.contrastIndex, Rat(3, 10)))),
     applyPalette |-> TRUE]

\* The statistics k/AdvisorGrid, k = 0..AdvisorGrid, of the interval [0, 1].
AdvStats == {Rat(k, AdvisorGrid) : k \in 0..AdvisorGrid}
AdvPalettes ==
    {<<>>, <<RGB(255, 0, 0), RGB(250, 120, 10)>>, <<RGB(10, 60, 220)>>,
     <<RGB(255, 0, 0), RGB(10, 60, 220)>>, <<RGB(128, 128, 128)>>}

(***************************************************************************)
(* EdgeDetector.  Luminance and gradients are integers in units of         *)
(* 1/10000; a threshold is given in the same units.                        *)
(***************************************************************************)
\* A mutant of gx: the sign of one weight slipped.
gxSignSlip == <<-1, 0, 1, -2, 0, -2, -1, 0, 1>>
gx == <<-1, 0, 1, -2, 0, 2, -1, 0, 1>>
gy == <<-1, -2, -1, 0, 0, 0, 1, 2, 1>>

\* 0.2126 * r + 0.7152 * g + 0.0722 * b
Lum(px) == 2126 * px[1] + 7152 * px[2] + 722 * px[3]

\* idx(x, y) / 4, as a 1-based index of the pixel sequence.
Idx(x, y, w) == y * w + x + 1

\* a * a + b * b as three base-4096 digits <<high, middle, low>>, so that no
\* product leaves the 32-bit integers of the model checker (|a|, |b| < 2^24).
SumSq(a, b) ==
    LET a1 == Abs(a) \div 4096
        a0 == Abs(a) % 4096
        b1 == Abs(b) \div 4096
        b0 == Abs(b) % 4096
        c0 == a0 * a0 + b0 * b0
        c1 == 2 * (a1 * a0 + b1 * b0) + (c0 \div 4096)
        c2 == a1 * a1 + b1 * b1 + (c1 \div 4096)
    IN  <<c2, c1 % 4096, c0 % 4096>>

DigitsGt(u, v) ==
    \/ u[1] > v[1]
    \/ u[1] = v[1] /\ u[2] > v[2]
    \/ u[1] = v[1] /\ u[2] = v[2] /\ u[3] > v[3]

\* Math.sqrt(sx * sx + sy * sy) > threshold
MagGt(sx, sy, threshold) ==
    threshold < 0 \/ DigitsGt(SumSq(sx, sy), SumSq(threshold, 0))

RECURSIVE KernelSum(_, _, _, _, _, _)
\* The sum over k..9 of lum * kernel[k]: the loops over j and i of sobelEdges.
KernelSum(d, w, x, y, kernel, k) ==
    IF k > 9 THEN 0
    ELSE LET i == ((k - 1) % 3) - 1
             j == ((k - 1) \div 3) - 1
         IN  Lum(d[Idx(x + i, y + j, w)]) * kernel[k]
                 + KernelSum(d, w, x, y, kernel, k + 1)

\* A mutant of isEdge: mag >= threshold.
isEdgeInclusive(d, w, x, y, threshold) ==
    \/ threshold <= 0
    \/ ~DigitsGt(SumSq(threshold, 0),
                 SumSq(KernelSum(d, w, x, y, gx, 1), KernelSum(d, w, x, y, gy, 1)))

isEdge(d, w, x, y, threshold) ==
    MagGt(KernelSum(d, w, x, y, gx, 1), KernelSum(d, w, x, y, gy, 1), threshold)

\* The ImageData returned: created transparent black, its interior pixels
\* written by the loops y = 1..h-2, x = 1..w-2.
sobelEdges(d, w, h, threshold) ==
    [q \in 1..(w * h) |->
        LET x == (q - 1) % w
            y == (q - 1) \div w
        IN  IF 1 <= y /\ y < h - 1 /\ 1 <= x /\ x < w - 1
            THEN <<0, 0, 0, IF isEdge(d, w, x, y, threshold) THEN 255 ELSE 0>>
            ELSE <<0, 0, 0, 0>>]

Black == <<0, 0, 0, 255>>
White == <<255, 255, 255, 255>>
SobelColours == {Black, White, <<200, 30, 60, 128>>}
SobelThresholds == {-200000, 0, 500000, 1000000}
\* The sizes w x h of at most n pixels.
SizesUpTo(n) == {wh \in (1..n) \X (1..n) : wh[1] * wh[2] <= n}

\* The buffer of width w whose columns 0..w/2-1 are black and the others white.
HalfBuffer(w, h) ==
    [q \in 1..(w * h) |-> IF (q - 1) % w < w \div 2 THEN Black ELSE White]
\* The same buffer with the white half on the left.
HalfBufferWB(w, h) ==
    [q \in 1..(w * h) |-> IF (q - 1) % w < w \div 2 THEN White ELSE Black]
HalfSizes == {wh \in (1..MaxHalfSide) \X (1..MaxHalfSide) : wh[1] % 2 = 0}

(***************************************************************************)
(* PaletteExtractor (k-means).  A sample or a centre is a colour           *)
(* [r, g, b]; luminance keys are in units of 1/10000.                      *)
(***************************************************************************)
Red == RGB(255, 0, 0)
BlackRGB == RGB(0, 0, 0)

ColourDist(c, p) ==
    (c.r - p.r) * (c.r - p.r) + (c.g - p.g) * (c.g - p.g)
        + (c.b - p.b) * (c.b - p.b)

RECURSIVE ClosestFrom(_, _, _, _, _)
\* The loop of closestColorIndex from index i on, bi and bd so far; bd = -1
\* stands for Infinity.  Indices are 1-based.
ClosestFrom(c, palette, i, bi, bd) ==
    IF i > Len(palette) THEN bi
    ELSE LET d == ColourDist(c, palette[i])
         IN  IF bd = -1 \/ d < bd
             THEN ClosestFrom(c, palette, i + 1, i, d)
             ELSE ClosestFrom(c, palette, i + 1, bi, bd)

closestColorIndex(c, palette) == ClosestFrom(c, palette, 1, 1, -1)

RECURSIVE SumOf(_, _, _, _, _)
\* sums[j] over the samples lo..hi: <<r, g, b, c>>.  The source adds the
\* samples one by one; the sums are integers, so the halving used here (it
\* keeps the evaluation shallow on long pools) gives the same totals.
SumOf(samples, assignments, j, lo, hi) ==
    IF lo > hi THEN <<0, 0, 0, 0>>
    ELSE IF lo = hi
    THEN IF assignments[lo] = j
         THEN <<samples[lo].r, samples[lo].g, samples[lo].b, 1>>
         ELSE <<0, 0, 0, 0>>
    ELSE LET mid == (lo + hi) \div 2
             x == SumOf(samples, assignments, j, lo, mid)
             y == SumOf(samples, assignments, j, mid + 1, hi)
         IN  <<x[1] + y[1], x[2] + y[2], x[3] + y[3], x[4] + y[4]>>

\* A mutant of NewCenter: the centre is recomputed without the test c > 0
\* (0 / 0 stored as 0).
NewCenterUnguarded(sum, old) ==
    IF sum[4] > 0
    THEN RGB(MathRound(Rat(sum[1], sum[4])), MathRound(Rat(sum[2], sum[4])),
             MathRound(Rat(sum[3], sum[4])))
    ELSE RGB(0, 0, 0)

\* if (sums[j].c > 0) centers[j] = rounded mean; otherwise unchanged.
NewCenter(sum, old) ==
    IF sum[4] > 0
    THEN RGB(MathRound(Rat(sum[1], sum[4])), MathRound(Rat(sum[2], sum[4])),
             MathRound(Rat(sum[3], sum[4])))
    ELSE old

\* One iteration of the loop of kmeansPalette.
KmStep(samples, centers) ==
    LET assignments ==
            [i \in 1..Len(samples) |-> closestColorIndex(samples[i], centers)]
    IN  [j \in 1..Len(centers) |->
            NewCenter(SumOf(samples, assignments, j, 1, Len(samples)),
                      centers[j])]

\* A mutant of LumKey: the comparator of the sort with its operands swapped.
LumKeyDescending(c) == -(2126 * c.r + 7152 * c.g + 722 * c.b)

\* 0.2126 * r + 0.7152 * g + 0.0722 * b, the key of the final sort.
LumKey(c) == 2126 * c.r + 7152 * c.g + 722 * c.b

RECURSIVE InsertByLum(_, _)
\* c inserted into the sorted sequence s after the entries of no greater key.
InsertByLum(s, c) ==
    IF Len(s) = 0 THEN <<c>>
    ELSE IF LumKey(s[Len(s)]) <= LumKey(c) THEN Append(s, c)
    ELSE Append(InsertByLum(SubSeq(s, 1, Len(s) - 1), c), s[Len(s)])

RECURSIVE SortByLum(_, _)
\* centers.sort((a, b) => lum(a) - lum(b)): a stable ascending sort.
SortByLum(centers, n) ==
    IF n = 0 THEN <<>>
    ELSE InsertByLum(SortByLum(centers, n - 1), centers[n])

KmColours == {BlackRGB, Red, RGB(255, 255, 255), RGB(100, 150, 200)}
KmSmallPools == UNION {[1..n -> KmColours] : n \in 0..MaxPool}
\* nr samples of pure red followed by nb samples of pure black.
RedBlackPool(nr, nb) == [i \in 1..(nr + nb) |-> IF i <= nr THEN Red ELSE BlackRGB]
\* Pools in which one of the two colours outnumbers the other heavily.
SkewedCounts ==
    {<<a, b>> : a \in (MaxSkew - 3)..MaxSkew, b \in 1..2}
    \cup {<<b, a>> : a \in (MaxSkew - 3)..MaxSkew, b \in 1..2}
SeqRange(s) == {s[i] : i \in 1..Len(s)}

(***************************************************************************)
(* PaletteTransfer.  A buffer is a sequence of pixels <<r, g, b, a>>.      *)
(***************************************************************************)
\* A variant of PalettePixel that also makes the pixel opaque.
PalettePixelOpaque(px, palette) ==
    LET p == palette[closestColorIndex(RGB(px[1], px[2], px[3]), palette)]
    IN  <<ToUint8Clamped(RInt(p.r)), ToUint8Clamped(RInt(p.g)),
          ToUint8Clamped(RInt(p.b)), 255>>

\* const p = palette[idx]; d[i] = p.r; d[i + 1] = p.g; d[i + 2] = p.b;
PalettePixel(px, palette) ==
    LET p == palette[closestColorIndex(RGB(px[1], px[2], px[3]), palette)]
    IN  <<ToUint8Clamped(RInt(p.r)), ToUint8Clamped(RInt(p.g)),
          ToUint8Clamped(RInt(p.b)), px[4]>>

\* The bytes of imageData.data after applyPaletteToImageData(imageData,
\* palette): if (!palette || palette.length === 0) return imageData;
applyPaletteToImageData(data, palette) ==
    IF Len(palette) = 0 THEN data
    ELSE [i \in 1..Len(data) |-> PalettePixel(data[i], palette)]

\* The palettes PaletteTransfer is exercised with: none, one colour, several.
PtPalettes ==
    {<<>>} \cup {<<c>> : c \in KmColours}
    \cup {<<BlackRGB, Red>>, <<Red, Red>>,
          <<BlackRGB, RGB(100, 150, 200), RGB(255, 255, 255)>>}

(***************************************************************************)
(* CompositePipeline.  The stylized canvas is kept as the sequence of the  *)
(* layers drawn on it since it was last cleared; a layer is a tuple whose  *)
(* first entry names the drawing and whose other entries are the values    *)
(* the drawing was computed from.  img is the image on the original        *)
(* canvas; c is the record of the eight controls the run reads.            *)
(***************************************************************************)
\* const levels = Math.floor(5 + styleIntensity * 5);
levelsOf(c) == RFloor(RAdd(RInt(5), RMul(c.styleIntensity, RInt(5))))
\* const satBoost = saturationBoost * (0.3 + styleIntensity * 0.7);
satBoostOf(c) ==
    RMul(c.saturationBoost, RAdd(Rat(3, 10), RMul(c.styleIntensity, Rat(7, 10))))
\* const edgeThreshold = 100 - outlineWeight * 80;
edgeThresholdOf(c) == RSub(RInt(100), RMul(c.outlineWeight, RInt(80)))
\* const thickenPx = Math.floor(1 + outlineWeight * 3);
thickenPxOf(c) == RFloor(RAdd(RInt(1), RMul(c.outlineWeight, RInt(3))))
\* drawBurst(sctx, w, h, burstStrength * styleIntensity)
burstOf(c) == RMul(c.burstStrength, c.styleIntensity)
\* drawHalftone(sctx, w, h, halftone ? halftoneDensity : 0)
densityOf(c) == IF c.halftone THEN c.halftoneDensity ELSE RInt(0)

\* drawBurst: if (strength <= 0.01) return;
BurstDraws(strength) == ~RLe(strength, Rat(1, 100))
\* drawHalftone: if (!halftone || density <= 0.01) return;
HalftoneDraws(c, density) == ~(~c.halftone \/ RLe(density, Rat(1, 100)))
\* A variant of HalftoneSpacing whose spacing grows with the density.
HalftoneSpacingRising(density) == 12 + RFloor(RMul(density, RInt(20)))
\* const spacing = 12 - Math.floor(density * 20);
HalftoneSpacing(density) == 12 - RFloor(RMul(density, RInt(20)))
\* const radius = Math.max(1, Math.floor(spacing / 4));
HalftoneRadius(spacing) == Max2(1, spacing \div 4)
\* for (let y = radius; y < h; y += spacing): with spacing <= 0 the loop is
\* entered when radius < h and y never reaches h.
HalftoneLoopsForever(spacing, radius, h) == spacing <= 0 /\ radius < h

BgLayer == <<"bg">>
BurstLayerOf(c) == <<"burst", burstOf(c)>>
PosterLayerOf(img, c) == <<"poster", img, levelsOf(c), satBoostOf(c)>>
\* The draws of Math.random() a motif pack makes, as one value: flames draws
\* the height of every tongue, psychedelia the place and radius of every
\* spiral; waves and none draw nothing.
MaxMotifDraws == 2
MotifDraws(pack) ==
    IF pack \in {"flames", "psychedelia"} THEN 1..MaxMotifDraws ELSE {0}
MotifLayerOf(c, rnd) == <<"motif", c.motifPack, c.styleIntensity, rnd>>
EdgeLayerOf(img, c) == <<"edges", img, edgeThresholdOf(c), thickenPxOf(c)>>
HalftoneLayerOf(density) ==
    <<"halftone", HalftoneSpacing(density),
      HalftoneRadius(HalftoneSpacing(density)),
      RAdd(Rat(15, 100), RMul(density, Rat(25, 100)))>>
PaletteLayerOf(palette) == <<"palette", palette>>

\* A variant of PutImageData that draws the image over what the canvas holds.
DrawBlended(layers, image) == Append(layers, image)
\* sctx.putImageData(poster, 0, 0) with an image of the size of the canvas:
\* every pixel of the canvas is replaced, nothing drawn before is left.
PutImageData(layers, image) == <<image>>

\* What a run of stylize that reaches its end leaves on the stylized canvas,
\* rnd being the random draws of its motif pack.
FullChain(img, c, rnd) ==
    PutImageData(<<>>, PosterLayerOf(img, c))
    \o (IF c.motifPack = "none" THEN <<>> ELSE <<MotifLayerOf(c, rnd)>>)
    \o <<EdgeLayerOf(img, c)>>
    \o (IF HalftoneDraws(c, densityOf(c))
        THEN <<HalftoneLayerOf(densityOf(c))>> ELSE <<>>)

\* applyPaletteToImageData on the canvas: an empty palette leaves it as it
\* is, and mapping a canvas already mapped to the same palette changes
\* nothing.
QuantizeLayers(layers, palette) ==
    IF Len(palette) = 0 THEN layers
    ELSE IF Len(layers) > 0 /\ layers[Len(layers)] = PaletteLayerOf(palette)
         THEN layers
         ELSE Append(layers, PaletteLayerOf(palette))

\* The layers of a canvas without the palette mappings applied to it.
WithoutPalette(layers) == SelectSeq(layers, LAMBDA l : l[1] # "palette")

\* img.onload: the size the image is drawn at, its longer side at most maxSide.
maxSide == 768
FitMaxSide(w, h) ==
    IF w > h /\ w > maxSide
    THEN <<maxSide, MathRound(RMul(Rat(maxSide, w), RInt(h)))>>
    ELSE IF h >= w /\ h > maxSide
         THEN <<MathRound(RMul(Rat(maxSide, h), RInt(w))), maxSide>>
         ELSE <<w, h>>

\* applySuggested: the six controls a suggestion sets.
applySuggested(c, sg) ==
    [c EXCEPT !.outlineWeight = sg.outlineWeight,
              !.saturationBoost = sg.saturationBoost,
              !.halftoneDensity = sg.halftoneDensity,
              !.burstStrength = sg.burstStrength,
              !.motifPack = sg.motifPack,
              !.styleIntensity = sg.styleIntensity]

\* The effects React runs after a render, in the order of their declaration:
\* the image effect when imgURL changed, the control effect when a control
\* changed, the palette effect when any of its dependencies changed.
Effects(imgChanged, ctlChanged, paletteDepChanged) ==
    (IF imgChanged THEN <<"image">> ELSE <<>>)
    \o (IF ctlChanged THEN <<"controls">> ELSE <<>>)
    \o (IF imgChanged \/ ctlChanged \/ paletteDepChanged
        THEN <<"palette">> ELSE <<>>)

(***************************************************************************)
(* Variables.                                                              *)
(***************************************************************************)
VARIABLES pzOrig, pzData, pzLevels, pzSatBoost, pzCalled,
          advCtx, advSuggested, advCalled,
          sbW, sbH, sbData, sbThreshold, sbOut, sbCalled,
          kmSamples, kmK, kmInitial, kmCenters, kmPrev, kmIter, kmPhase,
          kmResult,
          imgURL, nextURL, ctl, profile, applyPaletteTransfer,
          autoApplyProfile, referenceURLs, localStorage, ocan, scan,
          loads, reader, analysis, todo, stage, trace, runCtl, nEvents,
          finished,
          ptOrig, ptData, ptPalette, ptCalled,
          htD1, htD2, htS1, htS2, htCalled

pzVars == <<pzOrig, pzData, pzLevels, pzSatBoost, pzCalled>>
advVars == <<advCtx, advSuggested, advCalled>>
sbVars == <<sbW, sbH, sbData, sbThreshold, sbOut, sbCalled>>
kmVars == <<kmSamples, kmK, kmInitial, kmCenters, kmPrev, kmIter, kmPhase,
           kmResult>>
appVars == <<imgURL, nextURL, ctl, profile, applyPaletteTransfer,
             autoApplyProfile, referenceURLs, localStorage, ocan, scan,
             loads, reader, analysis, todo, stage, trace, runCtl, nEvents,
             finished>>
ptVars == <<ptOrig, ptData, ptPalette, ptCalled>>
htVars == <<htD1, htD2, htS1, htS2, htCalled>>
vars == <<pzVars, advVars, sbVars, kmVars, appVars, ptVars, htVars>>

(***************************************************************************)
(* Each component is exercised by a specification of its own; the          *)
(* variables of the other components then rest at these values.            *)
(***************************************************************************)
PzIdle ==
    /\ pzOrig = <<>>
    /\ pzData = <<>>
    /\ pzLevels = 0
    /\ pzSatBoost = RInt(0)
    /\ pzCalled = FALSE

AdvIdle ==
    /\ advCtx = <<>>
    /\ advSuggested = <<>>
    /\ advCalled = FALSE

SbIdle ==
    /\ sbW = 0
    /\ sbH = 0
    /\ sbData = <<>>
    /\ sbThreshold = 0
    /\ sbOut = <<>>
    /\ sbCalled = FALSE

KmIdle ==
    /\ kmSamples = <<>>
    /\ kmK = 0
    /\ kmInitial = <<>>
    /\ kmCenters = <<>>
    /\ kmPrev = <<>>
    /\ kmIter = 0
    /\ kmPhase = "idle"
    /\ kmResult = <<>>

PtIdle ==
    /\ ptOrig = <<>>
    /\ ptData = <<>>
    /\ ptPalette = <<>>
    /\ ptCalled = FALSE

HtIdle ==
    /\ htD1 = RInt(0)
    /\ htD2 = RInt(0)
    /\ htS1 = 0
    /\ htS2 = 0
    /\ htCalled = FALSE

\* The controls as the component creates them.
DefaultCtl ==
    [styleIntensity |-> Rat(7, 10), outlineWeight |-> Rat(8, 10),
     saturationBoost |-> Rat(3, 10), motifPack |-> "waves",
     halftone |-> TRUE, halftoneDensity |-> Rat(15, 100),
     burstStrength |-> Rat(5, 10), transparentBG |-> FALSE]

\* A canvas element before its size is set.
DefaultCanvasWidth == 300
DefaultCanvasHeight == 150

\* The component after its first render.
AppMounted ==
    /\ imgURL = 0
    /\ nextURL = 1
    /\ ctl = DefaultCtl
    /\ profile = <<>>
    /\ applyPaletteTransfer = TRUE
    /\ autoApplyProfile = TRUE
    /\ referenceURLs = 0
    /\ ocan = [img |-> 0, w |-> DefaultCanvasWidth, h |-> DefaultCanvasHeight]
    /\ scan = [w |-> DefaultCanvasWidth, h |-> DefaultCanvasHeight,
               layers |-> <<>>]
    /\ loads = {}
    /\ reader = {}
    /\ analysis = {}
    /\ todo = <<>>
    /\ stage = "Idle"
    /\ trace = <<>>
    /\ runCtl = DefaultCtl
    /\ nEvents = 0
    /\ finished = {}

AppIdle ==
    /\ AppMounted
    /\ localStorage = <<>>

(***************************************************************************)
(* SpecPosterizer: posterizeAndSaturate on every small buffer.             *)
(***************************************************************************)
PzInit ==
    /\ pzOrig \in PzBuffers
    /\ pzData = pzOrig
    /\ pzLevels \in 2..MaxLevels
    /\ pzSatBoost \in PzSatBoosts
    /\ pzCalled = FALSE
    /\ AdvIdle
    /\ SbIdle
    /\ KmIdle
    /\ AppIdle
    /\ PtIdle
    /\ HtIdle

\* posterizeAndSaturate(imageData, levels, satBoost): the buffer is
\* overwritten pixel by pixel and returned.
Posterize ==
    /\ ~pzCalled
    /\ pzData' = posterizeAndSaturate(pzData, pzLevels, pzSatBoost)
    /\ pzCalled' = TRUE
    /\ UNCHANGED <<pzOrig, pzLevels, pzSatBoost>>
    /\ UNCHANGED <<advVars, sbVars, kmVars, appVars, ptVars, htVars>>

PzNext == Posterize
SpecPosterizer == PzInit /\ [][PzNext]_vars

\* The L evenly spaced levels 0, 255/(L-1), ..., 255 as stored bytes.
EvenLevels(L) == {ToUint8Clamped(Rat(255 * k, L - 1)) : k \in 0..(L - 1)}
PzChannel(ch) == {pzData[i][ch] : i \in 1..Len(pzData)}

\* C6: after the Posterizer has run with L >= 2 levels, each of the R, G and
\* B channels of the buffer holds at most L distinct values, each one of the
\* L evenly spaced levels with step 255/(L-1).
C6_PosterizeAtMostLLevels ==
    pzCalled =>
        \A ch \in 1..3 :
            /\ Cardinality(PzChannel(ch)) <= pzLevels
            /\ PzChannel(ch) \subseteq EvenLevels(pzLevels)

\* C13: the Posterizer leaves every byte of the buffer it is given as it
\* was (and returns its result in a buffer of its own).
C13_PosterizerLeavesInputUnchanged ==
    pzCalled => pzData = pzOrig

(***************************************************************************)
(* SpecAdvisor: suggestControls on a grid of statistics.                   *)
(***************************************************************************)
AdvInit ==
    /\ advCtx \in [palette : AdvPalettes, meanSaturation : AdvStats,
                   saturationStd : {Rat(0, 1)}, edgeDensity : AdvStats,
                   contrastIndex : AdvStats]
    /\ advSuggested = <<>>
    /\ advCalled = FALSE
    /\ PzIdle
    /\ SbIdle
    /\ KmIdle
    /\ AppIdle
    /\ PtIdle
    /\ HtIdle

Suggest ==
    /\ ~advCalled
    /\ advSuggested' = suggestControls(advCtx)
    /\ advCalled' = TRUE
    /\ UNCHANGED <<advCtx, pzVars, sbVars, kmVars, appVars, ptVars, htVars>>

AdvNext == Suggest
SpecAdvisor == AdvInit /\ [][AdvNext]_vars

InRange(v, lo, hi) == RLe(lo, v) /\ RLe(v, hi)

\* C5: every field suggested by the ParameterAdvisor lies in the declared
\* range of that field of the ParameterSet: outlineWeight in [0.3, 1],
\* saturationBoost in [0, 0.5], halftoneDensity in [0, 0.4], burstStrength
\* in [0, 1] and styleIntensity in [0, 1].
C5_SuggestedInDeclaredRange ==
    advCalled =>
        /\ InRange(advSuggested.outlineWeight, Rat(3, 10), RInt(1))
        /\ InRange(advSuggested.saturationBoost, RInt(0), Rat(5, 10))
        /\ InRange(advSuggested.halftoneDensity, RInt(0), Rat(4, 10))
        /\ InRange(advSuggested.burstStrength, RInt(0), RInt(1))
        /\ InRange(advSuggested.styleIntensity, RInt(0), RInt(1))

(***************************************************************************)
(* SpecSobel: sobelEdges on every buffer of at most MaxSobelPixels pixels   *)
(* in three colours, every black-and-white buffer of at most               *)
(* MaxTwoTonePixels pixels, and the half-black, half-white buffers.        *)
(***************************************************************************)
SbInit ==
    /\ \/ \E wh \in SizesUpTo(MaxSobelPixels) :
             /\ sbW = wh[1]
             /\ sbH = wh[2]
             /\ sbData \in [1..(wh[1] * wh[2]) -> SobelColours]
       \/ \E wh \in SizesUpTo(MaxTwoTonePixels) :
             /\ sbW = wh[1]
             /\ sbH = wh[2]
             /\ sbData \in [1..(wh[1] * wh[2]) -> {Black, White}]
       \/ \E wh \in HalfSizes :
             /\ sbW = wh[1]
             /\ sbH = wh[2]
             /\ sbData \in {HalfBuffer(wh[1], wh[2]), HalfBufferWB(wh[1], wh[2])}
    /\ sbThreshold \in SobelThresholds
    /\ sbOut = <<>>
    /\ sbCalled = FALSE
    /\ PzIdle
    /\ AdvIdle
    /\ KmIdle
    /\ AppIdle
    /\ PtIdle
    /\ HtIdle

SobelEdges ==
    /\ ~sbCalled
    /\ sbOut' = sobelEdges(sbData, sbW, sbH, sbThreshold)
    /\ sbCalled' = TRUE
    /\ UNCHANGED <<sbW, sbH, sbData, sbThreshold, pzVars, advVars, kmVars, appVars, ptVars, htVars>>

SbNext == SobelEdges
SpecSobel == SbInit /\ [][SbNext]_vars

SbX(q) == (q - 1) % sbW
SbY(q) == (q - 1) \div sbW
SbBorder(q) ==
    SbX(q) = 0 \/ SbX(q) = sbW - 1 \/ SbY(q) = 0 \/ SbY(q) = sbH - 1
SbLum(x, y) == Lum(sbData[y * sbW + x + 1])

\* The horizontal and vertical responses of the 3x3 gradient kernels
\* [-1 0 1; -2 0 2; -1 0 1] and [-1 -2 -1; 0 0 0; 1 2 1] at (x, y).
GradX(x, y) ==
    (SbLum(x + 1, y - 1) + 2 * SbLum(x + 1, y) + SbLum(x + 1, y + 1))
    - (SbLum(x - 1, y - 1) + 2 * SbLum(x - 1, y) + SbLum(x - 1, y + 1))
GradY(x, y) ==
    (SbLum(x - 1, y + 1) + 2 * SbLum(x, y + 1) + SbLum(x + 1, y + 1))
    - (SbLum(x - 1, y - 1) + 2 * SbLum(x, y - 1) + SbLum(x + 1, y - 1))

\* C8: the EdgeMask has the dimensions of its input, every RGB is (0, 0, 0),
\* every alpha is 0 or 255, every pixel of the 1-pixel border has alpha 0,
\* and an interior pixel has alpha 255 exactly when its 3x3 gradient
\* magnitude is strictly greater than the threshold.
C8_EdgeMaskShape ==
    sbCalled =>
        /\ Len(sbOut) = sbW * sbH
        /\ \A q \in 1..Len(sbOut) :
              /\ sbOut[q][1] = 0 /\ sbOut[q][2] = 0 /\ sbOut[q][3] = 0
              /\ sbOut[q][4] \in {0, 255}
              /\ SbBorder(q) => sbOut[q][4] = 0
              /\ ~SbBorder(q) =>
                    (sbOut[q][4] = 255 <=>
                        MagGt(GradX(SbX(q), SbY(q)), GradY(SbX(q), SbY(q)),
                              sbThreshold))

\* Witness of C8: a mask with an edge pixel and a non-edge interior pixel.
C8_Witness ==
    /\ sbCalled
    /\ \E q \in 1..Len(sbOut) : sbOut[q][4] = 255
    /\ \E q \in 1..Len(sbOut) : ~SbBorder(q) /\ sbOut[q][4] = 0
    /\ sbThreshold > 0

HalfCase ==
    /\ sbCalled
    /\ sbW % 2 = 0
    /\ sbData \in {HalfBuffer(sbW, sbH), HalfBufferWB(sbW, sbH)}
    /\ sbThreshold = 500000
AtBoundary(q) == SbX(q) = sbW \div 2 - 1 \/ SbX(q) = sbW \div 2

\* C7 as claimed: on the half-black, half-white buffer with T = 50 every
\* pixel of the columns adjacent to the boundary is an edge (alpha 255) and
\* every pixel of the other columns is a non-edge (alpha 0).  Stated for the
\* buffers whose boundary columns hold interior pixels (w >= 4, h >= 3).
C7_FullColumnMarked ==
    HalfCase /\ sbW >= 4 /\ sbH >= 3 =>
        \A q \in 1..Len(sbOut) :
            sbOut[q][4] = (IF AtBoundary(q) THEN 255 ELSE 0)

\* C7 as amended: the pixels marked as edge are exactly those of the columns
\* adjacent to the boundary that do not lie on the buffer's 1-pixel border.
C7_InteriorOfBoundaryColumnsMarked ==
    HalfCase =>
        \A q \in 1..Len(sbOut) :
            sbOut[q][4] = (IF AtBoundary(q) /\ ~SbBorder(q) THEN 255 ELSE 0)

\* Witness of C7: a half-black, half-white buffer with interior boundary
\* columns, on which edges were marked.
C7_Witness ==
    /\ HalfCase
    /\ sbW >= 4 /\ sbH >= 3
    /\ \E q \in 1..Len(sbOut) : sbOut[q][4] = 255

(***************************************************************************)
(* SpecKmeans: kmeansPalette, one action per loop iteration, on every      *)
(* small pool with K = 1..MaxK and on the skewed red-and-black pools with  *)
(* K = 2, under every draw of the initial centres.                         *)
(***************************************************************************)
KmInit ==
    /\ \/ kmSamples \in KmSmallPools /\ kmK \in 1..MaxK
       \/ /\ \E c \in SkewedCounts : kmSamples = RedBlackPool(c[1], c[2])
          /\ kmK = 2
    /\ kmInitial = <<>>
    /\ kmCenters = <<>>
    /\ kmPrev = <<>>
    /\ kmIter = 0
    /\ kmPhase = "start"
    /\ kmResult = <<>>
    /\ PzIdle
    /\ AdvIdle
    /\ SbIdle
    /\ AppIdle
    /\ PtIdle
    /\ HtIdle

\* if (samples.length === 0) return [];
KmEmpty ==
    /\ kmPhase = "start"
    /\ Len(kmSamples) = 0
    /\ kmResult' = <<>>
    /\ kmPhase' = "done"
    /\ UNCHANGED <<kmSamples, kmK, kmInitial, kmCenters, kmPrev, kmIter>>
    /\ UNCHANGED <<pzVars, advVars, sbVars, appVars, ptVars, htVars>>

\* centers.push(samples[Math.floor(Math.random() * samples.length)]), k times.
KmDraw ==
    /\ kmPhase = "start"
    /\ Len(kmSamples) > 0
    /\ \E c \in [1..kmK -> SeqRange(kmSamples)] :
          /\ kmCenters' = c
          /\ kmInitial' = c
          /\ kmPrev' = c
    /\ kmPhase' = "loop"
    /\ UNCHANGED <<kmSamples, kmK, kmIter, kmResult>>
    /\ UNCHANGED <<pzVars, advVars, sbVars, appVars, ptVars, htVars>>

\* The body of for (let iter = 0; iter < 8; iter++).
KmIterate ==
    /\ kmPhase = "loop"
    /\ kmIter < 8
    /\ kmPrev' = kmCenters
    /\ kmCenters' = KmStep(kmSamples, kmCenters)
    /\ kmIter' = kmIter + 1
    /\ UNCHANGED <<kmSamples, kmK, kmInitial, kmPhase, kmResult>>
    /\ UNCHANGED <<pzVars, advVars, sbVars, appVars, ptVars, htVars>>

\* return centers.sort(...), once iter < 8 fails.
KmReturn ==
    /\ kmPhase = "loop"
    /\ ~(kmIter < 8)
    /\ kmResult' = SortByLum(kmCenters, Len(kmCenters))
    /\ kmPhase' = "done"
    /\ UNCHANGED <<kmSamples, kmK, kmInitial, kmCenters, kmPrev, kmIter>>
    /\ UNCHANGED <<pzVars, advVars, sbVars, appVars, ptVars, htVars>>

KmNext == KmEmpty \/ KmDraw \/ KmIterate \/ KmReturn
SpecKmeans == KmInit /\ [][KmNext]_vars

KmCount(colour) == Cardinality({i \in 1..Len(kmSamples) : kmSamples[i] = colour})
\* A pool of pure red and pure black only, at least one of each, with K = 2.
RedBlackCase ==
    /\ kmK = 2
    /\ SeqRange(kmSamples) = {Red, BlackRGB}
\* Math.round of the red channel's mean over the whole pool.
PoolMeanRed == MathRound(Rat(255 * KmCount(Red), Len(kmSamples)))

\* C9 as claimed: on a pool of pure red and pure black only, with K = 2 and
\* under every draw of the initial centres, the palette returned after the 8
\* iterations is black followed by red.
C9_BlackThenRed ==
    RedBlackCase /\ kmPhase = "done" => kmResult = <<BlackRGB, Red>>

\* C9 as amended: the palette returned is black followed by red, unless both
\* initial centres were drawn from the same colour and the rounded mean of
\* the whole pool is that colour; then both returned centres are that colour.
C9_BlackThenRedUnlessMerged ==
    RedBlackCase /\ kmPhase = "done" =>
        kmResult =
            IF kmInitial = <<Red, Red>> /\ PoolMeanRed = 255
            THEN <<Red, Red>>
            ELSE IF kmInitial = <<BlackRGB, BlackRGB>> /\ PoolMeanRed = 0
            THEN <<BlackRGB, BlackRGB>>
            ELSE <<BlackRGB, Red>>

\* Witness of C9: both initial centres drawn from red, and black then red
\* returned after the 8 iterations.
C9_Witness ==
    /\ RedBlackCase
    /\ kmPhase = "done"
    /\ kmIter = 8
    /\ kmInitial = <<Red, Red>>
    /\ kmResult = <<BlackRGB, Red>>

\* Centre j received no assignment in the iteration that started from kmPrev.
KmUnassigned(j) ==
    \A i \in 1..Len(kmSamples) : closestColorIndex(kmSamples[i], kmPrev) # j

\* C10: an empty pool returns the empty palette; a non-empty pool returns
\* after exactly 8 iterations a palette of exactly K entries ordered
\* non-descending by luminance, whose entries are the final centres; and a
\* centre that received zero assignments in an iteration keeps its value.
C10_KmeansContract ==
    /\ kmPhase = "done" /\ Len(kmSamples) = 0 => kmResult = <<>> /\ kmIter = 0
    /\ kmPhase = "done" /\ Len(kmSamples) > 0 =>
          /\ kmIter = 8
          /\ Len(kmResult) = kmK
          /\ \A i \in 1..(Len(kmResult) - 1) :
                LumKey(kmResult[i]) <= LumKey(kmResult[i + 1])
          /\ \A c \in SeqRange(kmResult) \cup SeqRange(kmCenters) :
                Cardinality({i \in 1..kmK : kmResult[i] = c})
                    = Cardinality({i \in 1..kmK : kmCenters[i] = c})
    /\ kmIter > 0 =>
          \A j \in 1..kmK : KmUnassigned(j) => kmCenters[j] = kmPrev[j]
    /\ kmIter <= 8

\* Witness of C10: a palette of K = 3 entries returned in an order other
\* than that of the centres, after an 8th iteration in which some centre
\* received no assignment.
C10_Witness ==
    /\ kmPhase = "done"
    /\ kmIter = 8
    /\ kmK = 3
    /\ kmResult # kmCenters
    /\ \E j \in 1..kmK : KmUnassigned(j)

(***************************************************************************)
(* Spec: the PosterizerPro component.  User events, the completions of     *)
(* image loads, file reads and reference analyses, the effects React runs  *)
(* after a render, and the stages of a run of stylize.  JavaScript runs    *)
(* one callback at a time: an event is taken only when no run of stylize   *)
(* is under way and no effect is waiting.                                   *)
(***************************************************************************)
MaxEvents == 3
MaxURLs == 2
MaxRefs == 1

\* The values a user sets a control to.
ControlChoices ==
    [styleIntensity |-> {Rat(7, 10), Rat(0, 1)},
     outlineWeight |-> {Rat(8, 10), Rat(3, 10)},
     saturationBoost |-> {Rat(3, 10), Rat(1, 2)},
     motifPack |-> {"waves", "none", "flames"},
     halftone |-> BOOLEAN,
     halftoneDensity |-> {Rat(15, 100), Rat(0, 1), Rat(2, 5)},
     burstStrength |-> {Rat(5, 10), Rat(0, 1)},
     transparentBG |-> BOOLEAN]

\* The pixel size of the image behind an object URL.
ImageSize(url) == IF url = 1 THEN <<1536, 768>> ELSE <<2, 1>>

\* The content of a profile file or of the stored profile: json is whether
\* JSON.parse accepts it, suggested is <<>> when the field is missing.
ProfileData(json, palette, suggested) ==
    [json |-> json, palette |-> palette, suggested |-> suggested]
SuggestedInRange ==
    [outlineWeight |-> Rat(1, 2), saturationBoost |-> Rat(2, 5),
     halftoneDensity |-> Rat(1, 5), burstStrength |-> Rat(1, 1),
     motifPack |-> "flames", styleIntensity |-> Rat(1, 1),
     applyPalette |-> TRUE]
SuggestedOutOfRange ==
    [SuggestedInRange EXCEPT !.halftoneDensity = Rat(9, 10)]
ValidProfile == ProfileData(TRUE, <<BlackRGB, Red>>, <<SuggestedInRange>>)
EmptyPaletteProfile == ProfileData(TRUE, <<>>, <<SuggestedInRange>>)
NoSuggestedProfile == ProfileData(TRUE, <<RGB(255, 255, 255)>>, <<>>)
OutOfRangeProfile == ProfileData(TRUE, <<Red>>, <<SuggestedOutOfRange>>)
NotJSON == ProfileData(FALSE, <<>>, <<>>)
StoredPayloads ==
    {ValidProfile, EmptyPaletteProfile, NoSuggestedProfile, OutOfRangeProfile}
ImportPayloads == StoredPayloads \cup {NotJSON}

\* What analyzeReferences measures on the reference images: grey images,
\* and images of saturated colours.
Grey == RGB(128, 128, 128)
AnalysisOutcomes ==
    {[palette |-> <<Grey, Grey, Grey, Grey, Grey, Grey>>,
      meanSaturation |-> Rat(0, 1), saturationStd |-> Rat(0, 1),
      edgeDensity |-> Rat(0, 1), contrastIndex |-> Rat(0, 1)],
     [palette |-> <<BlackRGB, RGB(10, 60, 220), Red, Red,
                    RGB(255, 255, 255), RGB(255, 255, 255)>>,
      meanSaturation |-> Rat(1, 2), saturationStd |-> Rat(1, 4),
      edgeDensity |-> Rat(1, 4), contrastIndex |-> Rat(1, 2)]}

compVars == <<pzVars, advVars, sbVars, kmVars, ptVars, htVars>>

Init ==
    /\ AppMounted
    /\ localStorage \in {<<>>} \cup {<<p>> : p \in StoredPayloads}
    /\ PzIdle
    /\ AdvIdle
    /\ SbIdle
    /\ KmIdle
    /\ PtIdle
    /\ HtIdle

\* No run of stylize is under way.
Quiescent == stage \in {"Idle", "Terminal"}
\* No callback is running and no effect is waiting to run.
Ready == Quiescent /\ todo = <<>>
UserReady == Ready /\ nEvents < MaxEvents

\* onFile: a file is chosen; its object URL becomes imgURL.
OnFile ==
    /\ UserReady
    /\ nextURL <= MaxURLs
    /\ imgURL' = nextURL
    /\ nextURL' = nextURL + 1
    /\ todo' = Effects(TRUE, FALSE, FALSE)
    /\ nEvents' = nEvents + 1
    /\ UNCHANGED <<finished, ctl, profile, applyPaletteTransfer, autoApplyProfile,
                   referenceURLs, localStorage, ocan, scan, loads, reader,
                   analysis, stage, trace, runCtl, compVars>>

\* The image effect: a load of imgURL starts; its onload keeps the stylize
\* of the render that created it, and so the controls of that render.
ImageEffect ==
    /\ Quiescent
    /\ todo # <<>>
    /\ Head(todo) = "image"
    /\ loads' = IF imgURL = 0 THEN loads
                ELSE loads \cup {[url |-> imgURL, ctl |-> ctl]}
    /\ todo' = Tail(todo)
    /\ UNCHANGED <<finished, imgURL, nextURL, ctl, profile, applyPaletteTransfer,
                   autoApplyProfile, referenceURLs, localStorage, ocan, scan,
                   reader, analysis, stage, trace, runCtl, nEvents, compVars>>

\* img.onload: both canvases take the fitted size (which clears them), the
\* image is drawn on the original canvas, and the stylize of the closure runs.
ImgLoad(l) ==
    /\ Ready
    /\ l \in loads
    /\ loads' = loads \ {l}
    /\ LET wh == FitMaxSide(ImageSize(l.url)[1], ImageSize(l.url)[2])
       IN  /\ ocan' = [img |-> l.url, w |-> wh[1], h |-> wh[2]]
           /\ scan' = [w |-> wh[1], h |-> wh[2], layers |-> <<>>]
    /\ stage' = "Init"
    /\ runCtl' = l.ctl
    /\ trace' = <<>>
    /\ UNCHANGED <<finished, imgURL, nextURL, ctl, profile, applyPaletteTransfer,
                   autoApplyProfile, referenceURLs, localStorage, reader,
                   analysis, todo, nEvents, compVars>>

\* A slider, the motif select or a checkbox of the controls changes.
SetControl(field, value) ==
    /\ UserReady
    /\ value # ctl[field]
    /\ ctl' = [ctl EXCEPT ![field] = value]
    /\ todo' = Effects(FALSE, TRUE, FALSE)
    /\ nEvents' = nEvents + 1
    /\ UNCHANGED <<finished, imgURL, nextURL, profile, applyPaletteTransfer,
                   autoApplyProfile, referenceURLs, localStorage, ocan, scan,
                   loads, reader, analysis, stage, trace, runCtl, compVars>>

\* The control effect: stylize() of the current render.
\* stylize: if (!imgURL || ...) return;
ControlsEffect ==
    /\ Quiescent
    /\ todo # <<>>
    /\ Head(todo) = "controls"
    /\ todo' = Tail(todo)
    /\ IF imgURL = 0
       THEN UNCHANGED <<stage, runCtl, trace>>
       ELSE /\ stage' = "Init"
            /\ runCtl' = ctl
            /\ trace' = <<>>
    /\ UNCHANGED <<finished, imgURL, nextURL, ctl, profile, applyPaletteTransfer,
                   autoApplyProfile, referenceURLs, localStorage, ocan, scan,
                   loads, reader, analysis, nEvents, compVars>>

\* The palette effect: the stylized canvas is read, mapped to the palette of
\* the profile and written back.
PaletteEffect ==
    /\ Quiescent
    /\ todo # <<>>
    /\ Head(todo) = "palette"
    /\ todo' = Tail(todo)
    /\ scan' = IF profile = <<>> \/ ~applyPaletteTransfer THEN scan
               ELSE [scan EXCEPT
                        !.layers = QuantizeLayers(@, profile[1].palette)]
    /\ UNCHANGED <<finished, imgURL, nextURL, ctl, profile, applyPaletteTransfer,
                   autoApplyProfile, referenceURLs, localStorage, ocan,
                   loads, reader, analysis, stage, trace, runCtl, nEvents,
                   compVars>>

\* The Apply Palette Transfer checkbox, rendered once a profile is present.
ToggleApplyPalette ==
    /\ UserReady
    /\ profile # <<>>
    /\ applyPaletteTransfer' = ~applyPaletteTransfer
    /\ todo' = Effects(FALSE, FALSE, TRUE)
    /\ nEvents' = nEvents + 1
    /\ UNCHANGED <<finished, imgURL, nextURL, ctl, profile, autoApplyProfile,
                   referenceURLs, localStorage, ocan, scan, loads, reader,
                   analysis, stage, trace, runCtl, compVars>>

\* The Auto-apply checkbox.
ToggleAutoApply ==
    /\ UserReady
    /\ autoApplyProfile' = ~autoApplyProfile
    /\ nEvents' = nEvents + 1
    /\ UNCHANGED <<finished, imgURL, nextURL, ctl, profile, applyPaletteTransfer,
                   referenceURLs, localStorage, ocan, scan, loads, reader,
                   analysis, todo, stage, trace, runCtl, compVars>>

\* onReferenceFiles: reference images are added.
OnReferenceFiles ==
    /\ UserReady
    /\ referenceURLs < MaxRefs
    /\ referenceURLs' = referenceURLs + 1
    /\ nEvents' = nEvents + 1
    /\ UNCHANGED <<finished, imgURL, nextURL, ctl, profile, applyPaletteTransfer,
                   autoApplyProfile, localStorage, ocan, scan, loads, reader,
                   analysis, todo, stage, trace, runCtl, compVars>>

\* The body shared by analyzeReferences, loadSavedProfile and the onload of
\* importProfileJSON:
\*   setProfile(prof); if (autoApplyProfile) applySuggested(prof.suggested);
\*   localStorage.setItem(...)          (not in loadSavedProfile)
\* inside try { } catch {} in the last two.  JSON.parse throws on data that
\* is not JSON, and applySuggested throws on a missing suggested record,
\* after setProfile and before setItem.  The state updates of one callback
\* are rendered together.
InstallProfile(data, autoApply, store) ==
    IF ~data.json
    THEN UNCHANGED <<profile, ctl, applyPaletteTransfer, localStorage, todo>>
    ELSE /\ profile' = <<data>>
         /\ IF autoApply /\ data.suggested # <<>>
            THEN /\ ctl' = applySuggested(ctl, data.suggested[1])
                 /\ applyPaletteTransfer' = data.suggested[1].applyPalette
            ELSE UNCHANGED <<ctl, applyPaletteTransfer>>
         /\ localStorage' = IF store /\ ~(autoApply /\ data.suggested = <<>>)
                            THEN <<data>> ELSE localStorage
         /\ todo' = Effects(FALSE, ctl' # ctl, TRUE)

\* analyzeReferences up to its first await; the call keeps the
\* autoApplyProfile of the render it was made in.
AnalyzeStart ==
    /\ UserReady
    /\ referenceURLs > 0
    /\ analysis = {}
    /\ analysis' = {[autoApply |-> autoApplyProfile]}
    /\ nEvents' = nEvents + 1
    /\ UNCHANGED <<finished, imgURL, nextURL, ctl, profile, applyPaletteTransfer,
                   autoApplyProfile, referenceURLs, localStorage, ocan, scan,
                   loads, reader, todo, stage, trace, runCtl, compVars>>

\* analyzeReferences after the last reference image has loaded.
AnalyzeDone(a, ctx) ==
    /\ Ready
    /\ a \in analysis
    /\ analysis' = analysis \ {a}
    /\ InstallProfile(ProfileData(TRUE, ctx.palette, <<suggestControls(ctx)>>),
                      a.autoApply, TRUE)
    /\ UNCHANGED <<finished, imgURL, nextURL, autoApplyProfile, referenceURLs, ocan,
                   scan, loads, reader, stage, trace, runCtl, nEvents,
                   compVars>>

\* loadSavedProfile: if (!raw) return;
LoadSaved ==
    /\ UserReady
    /\ localStorage # <<>>
    /\ InstallProfile(localStorage[1], autoApplyProfile, FALSE)
    /\ nEvents' = nEvents + 1
    /\ UNCHANGED <<finished, imgURL, nextURL, autoApplyProfile, referenceURLs, ocan,
                   scan, loads, reader, analysis, stage, trace, runCtl,
                   compVars>>

\* importProfileJSON: a file is chosen and its read starts (the input is
\* rendered once a profile is present).
ImportStart(data) ==
    /\ UserReady
    /\ profile # <<>>
    /\ reader = {}
    /\ reader' = {[data |-> data, autoApply |-> autoApplyProfile]}
    /\ nEvents' = nEvents + 1
    /\ UNCHANGED <<finished, imgURL, nextURL, ctl, profile, applyPaletteTransfer,
                   autoApplyProfile, referenceURLs, localStorage, ocan, scan,
                   loads, analysis, todo, stage, trace, runCtl, compVars>>

\* reader.onload of importProfileJSON.
ImportDone(r) ==
    /\ Ready
    /\ r \in reader
    /\ reader' = reader \ {r}
    /\ InstallProfile(r.data, r.autoApply, TRUE)
    /\ UNCHANGED <<finished, imgURL, nextURL, autoApplyProfile, referenceURLs, ocan,
                   scan, loads, analysis, stage, trace, runCtl, nEvents,
                   compVars>>

\* What a stage of stylize leaves alone.
StageFrame ==
    UNCHANGED <<imgURL, nextURL, ctl, profile, applyPaletteTransfer,
                autoApplyProfile, referenceURLs, localStorage, ocan, loads,
                reader, analysis, todo, runCtl, nEvents, compVars>>

\* The stage reached, what it leaves on the stylized canvas.  finished keeps,
\* of every run that reached Terminal, the image of the original canvas, the
\* controls of the run and the stylized canvas it returned with.
Reach(name, layers) ==
    /\ stage' = name
    /\ trace' = Append(trace, name)
    /\ scan' = [scan EXCEPT !.layers = layers]
    /\ finished' = IF name = "Terminal"
                   THEN finished \cup {<<ocan.img, runCtl, layers>>}
                   ELSE finished
    /\ StageFrame

\* sctx.clearRect(0, 0, w, h);
ClearTarget ==
    /\ stage = "Init"
    /\ Reach("ClearTarget", <<>>)

\* if (!transparentBG) { sctx.fillStyle = "#f6f6f6"; sctx.fillRect(0, 0, w, h); }
BackgroundFill ==
    /\ stage = "ClearTarget"
    /\ ~runCtl.transparentBG
    /\ Reach("BackgroundFill", Append(scan.layers, BgLayer))

\* drawBurst(sctx, w, h, burstStrength * styleIntensity);
BurstLayer ==
    /\ stage = IF runCtl.transparentBG THEN "ClearTarget" ELSE "BackgroundFill"
    /\ Reach("BurstLayer",
             IF BurstDraws(burstOf(runCtl))
             THEN Append(scan.layers, BurstLayerOf(runCtl))
             ELSE scan.layers)

\* sctx.putImageData(poster, 0, 0): the posterized image of the original
\* canvas replaces what the canvas held.
PosterizedBaseLayer ==
    /\ stage = "BurstLayer"
    /\ Reach("PosterizedBaseLayer",
             PutImageData(scan.layers, PosterLayerOf(ocan.img, runCtl)))

\* drawMotifs(sctx, w, h, motifPack, styleIntensity): if (pack === "none") return;
MotifLayer ==
    /\ stage = "PosterizedBaseLayer"
    /\ \E rnd \in MotifDraws(runCtl.motifPack) :
           Reach("MotifLayer",
                 IF runCtl.motifPack = "none" THEN scan.layers
                 ELSE Append(scan.layers, MotifLayerOf(runCtl, rnd)))

\* sobelEdges of the original canvas, blurred and drawn at alpha 0.9.
EdgeLayer ==
    /\ stage = "MotifLayer"
    /\ Reach("EdgeLayer", Append(scan.layers, EdgeLayerOf(ocan.img, runCtl)))

\* drawHalftone(sctx, w, h, halftone ? halftoneDensity : 0): nothing is drawn
\* when its guard returns; the dot loops never end when the spacing is not
\* positive and the first row lies inside the canvas.
HalftoneLayer ==
    /\ stage = "EdgeLayer"
    /\ LET density == densityOf(runCtl)
           spacing == HalftoneSpacing(density)
       IN  IF ~HalftoneDraws(runCtl, density)
           THEN Reach("HalftoneLayer", scan.layers)
           ELSE IF HalftoneLoopsForever(spacing, HalftoneRadius(spacing), ocan.h)
                THEN Reach("HalftoneLoop",
                           Append(scan.layers, HalftoneLayerOf(density)))
                ELSE Reach("HalftoneLayer",
                           Append(scan.layers, HalftoneLayerOf(density)))

\* One more iteration of a dot loop that never ends.
HalftoneSpin ==
    /\ stage = "HalftoneLoop"
    /\ UNCHANGED vars

\* setLoading(false); stylize returns.
Terminal ==
    /\ stage = "HalftoneLayer"
    /\ Reach("Terminal", scan.layers)

Next ==
    \/ OnFile
    \/ ImageEffect
    \/ \E l \in loads : ImgLoad(l)
    \/ \E field \in DOMAIN ControlChoices :
           \E value \in ControlChoices[field] : SetControl(field, value)
    \/ ControlsEffect
    \/ PaletteEffect
    \/ ToggleApplyPalette
    \/ ToggleAutoApply
    \/ OnReferenceFiles
    \/ AnalyzeStart
    \/ \E a \in analysis : \E ctx \in AnalysisOutcomes : AnalyzeDone(a, ctx)
    \/ LoadSaved
    \/ \E data \in ImportPayloads : ImportStart(data)
    \/ \E r \in reader : ImportDone(r)
    \/ ClearTarget
    \/ BackgroundFill
    \/ BurstLayer
    \/ PosterizedBaseLayer
    \/ MotifLayer
    \/ EdgeLayer
    \/ HalftoneLayer
    \/ HalftoneSpin
    \/ Terminal

Spec == Init /\ [][Next]_vars

\* The stages of a run in their order.
StageOrder ==
    <<"ClearTarget", "BackgroundFill", "BurstLayer", "PosterizedBaseLayer",
      "MotifLayer", "EdgeLayer", "HalftoneLayer", "Terminal">>
\* The stages a run with the controls c goes through.
ExpectedTrace(c) ==
    SelectSeq(StageOrder, LAMBDA st : st # "BackgroundFill" \/ ~c.transparentBG)
IsPrefix(a, b) == Len(a) <= Len(b) /\ a = SubSeq(b, 1, Len(a))
\* The last drawing on the stylized canvas is the dot lattice.
HalftoneOnTop ==
    Len(scan.layers) > 0 /\ scan.layers[Len(scan.layers)][1] = "halftone"
Running == stage \notin {"Idle", "Terminal"}

\* The stages a run has gone through are the first stages of its order,
\* each once, BackgroundFill among them exactly when transparentBG is false.
RunFollowsStageOrder ==
    stage # "Idle" => /\ IsPrefix(trace, ExpectedTrace(runCtl))
                      /\ Len(trace) > 0 => trace[Len(trace)] = stage
\* After the HalftoneLayer stage the dot lattice is on the canvas exactly
\* when halftone is enabled.
HalftoneDrawnIffEnabled ==
    stage = "HalftoneLayer" => (HalftoneOnTop <=> runCtl.halftone)
\* No run is caught in a dot loop that never ends.
RunNeverLoops == stage # "HalftoneLoop"

\* C1: every run of stylize goes through ClearTarget, BackgroundFill,
\* BurstLayer, PosterizedBaseLayer, MotifLayer, EdgeLayer, HalftoneLayer and
\* Terminal in this order, each once; BackgroundFill is executed exactly when
\* transparentBG is false, HalftoneLayer draws exactly when halftone is
\* enabled, and the run is never caught before Terminal.
C1_StagesInOrderToTerminal ==
    /\ stage = "HalftoneLoop" \/ RunFollowsStageOrder
    /\ HalftoneDrawnIffEnabled
    /\ RunNeverLoops

\* No callback is running, no effect is waiting and no image load is pending.
LoadsSettled == Ready /\ loads = {}

\* C2: once no image load is pending, the stylized canvas holds the full
\* chain computed from the image of the current imgURL with the current
\* controls.
C2_BufferIsFullChainOfCurrent ==
    (LoadsSettled /\ imgURL # 0)
        => /\ ocan.img = imgURL
           /\ \E rnd \in MotifDraws(ctl.motifPack) :
                  WithoutPalette(scan.layers) = FullChain(imgURL, ctl, rnd)

\* Nothing is pending at all.
Settled == LoadsSettled /\ reader = {} /\ analysis = {}
\* The stylized canvas was last mapped to the palette of the profile.
Quantized ==
    /\ profile # <<>>
    /\ Len(scan.layers) > 0
    /\ scan.layers[Len(scan.layers)] = PaletteLayerOf(profile[1].palette)

\* C3: once all events have settled and an image has been loaded, the
\* stylized canvas is palette-quantized exactly when applyPaletteTransfer is
\* true and a profile with a non-empty palette is present.
C3_QuantizedIffApplyAndProfile ==
    (Settled /\ ocan.img # 0)
        => (Quantized <=> /\ applyPaletteTransfer
                          /\ profile # <<>>
                          /\ Len(profile[1].palette) > 0)

\* The declared ranges of the controls a suggestion sets.
SuggestedInDeclaredRange(sg) ==
    /\ RLe(Rat(3, 10), sg.outlineWeight) /\ RLe(sg.outlineWeight, RInt(1))
    /\ RLe(RInt(0), sg.saturationBoost) /\ RLe(sg.saturationBoost, Rat(1, 2))
    /\ RLe(RInt(0), sg.halftoneDensity) /\ RLe(sg.halftoneDensity, Rat(2, 5))
    /\ RLe(RInt(0), sg.burstStrength) /\ RLe(sg.burstStrength, RInt(1))
    /\ RLe(RInt(0), sg.styleIntensity) /\ RLe(sg.styleIntensity, RInt(1))
    /\ sg.motifPack \in {"none", "waves", "flames", "psychedelia"}
\* Profile data that is not JSON, lacks its suggested record, or suggests a
\* value outside its declared range.
Malformed(data) ==
    \/ ~data.json
    \/ data.suggested = <<>>
    \/ ~SuggestedInDeclaredRange(data.suggested[1])
\* Malformed profile data is delivered by an import or read from storage.
MalformedDelivered ==
    \/ \E r \in reader : ImportDone(r) /\ Malformed(r.data)
    \/ LoadSaved /\ Malformed(localStorage[1])

\* C4: importing or loading malformed profile data leaves the profile, the
\* controls, applyPaletteTransfer and the stored profile unchanged.
C4_MalformedLeavesAllUnchanged ==
    [][MalformedDelivered
           => UNCHANGED <<profile, ctl, applyPaletteTransfer, localStorage>>]_vars

\* C14: every halftone density the controls come to hold gives a lattice
\* spacing of at least 1, and no run is caught in the dot loops.
C14_SpacingAtLeastOne ==
    /\ HalftoneSpacing(ctl.halftoneDensity) >= 1
    /\ stage = "HalftoneLayer" =>
           HalftoneSpacing(densityOf(runCtl)) >= 1
    /\ stage # "HalftoneLoop"

\* Two sets of controls that differ at most in burstStrength and transparentBG.
SameButBurstAndBackground(c1, c2) ==
    [c1 EXCEPT !.burstStrength = c2.burstStrength,
               !.transparentBG = c2.transparentBG] = c2
\* Two finished runs on the same image whose controls differ, and only in
\* burstStrength or transparentBG.
DifferOnlyInBurstOrBackground(r1, r2) ==
    /\ r1[1] = r2[1]
    /\ r1[2] # r2[2]
    /\ SameButBurstAndBackground(r1[2], r2[2])
\* The motif packs that draw without Math.random().
DeterministicPacks == {"none", "waves"}
\* Right after the PosterizedBaseLayer stage the stylized canvas holds the
\* posterized image of the original canvas and nothing else.
TargetIsPosterizedSource ==
    stage = "PosterizedBaseLayer"
        => scan.layers = <<PosterLayerOf(ocan.img, runCtl)>>
\* What a finished run returned with holds nothing of the background fill
\* and of the burst.
NothingBelowPosterSurvives ==
    \A r \in finished :
        /\ r[3][1][1] = "poster"
        /\ \A i \in 1..Len(r[3]) : r[3][i][1] \notin {"bg", "burst"}

MaxPtPixels == 3

PtInit ==
    /\ \E n \in 1..MaxPtPixels : ptOrig \in [1..n -> PzColours]
    /\ ptData = ptOrig
    /\ ptPalette \in PtPalettes
    /\ ptCalled = FALSE
    /\ PzIdle
    /\ AdvIdle
    /\ SbIdle
    /\ KmIdle
    /\ AppIdle
    /\ HtIdle

\* applyPaletteToImageData(imageData, palette): the buffer is overwritten
\* pixel by pixel and returned.
ApplyPalette ==
    /\ ~ptCalled
    /\ ptData' = applyPaletteToImageData(ptData, ptPalette)
    /\ ptCalled' = TRUE
    /\ UNCHANGED <<ptOrig, ptPalette>>
    /\ UNCHANGED <<pzVars, advVars, sbVars, kmVars, appVars, htVars>>

PtNext == ApplyPalette
SpecPalette == PtInit /\ [][PtNext]_vars

\* C11: PaletteTransfer with a single-colour palette <<c>> sets the RGB of
\* every pixel to c and keeps every alpha; with an empty palette it leaves
\* every channel of every pixel as it was.
C11_SingleColourAndEmptyPalette ==
    ptCalled =>
        /\ Len(ptData) = Len(ptOrig)
        /\ Len(ptPalette) = 1 =>
               \A i \in 1..Len(ptData) :
                   ptData[i] = <<ptPalette[1].r, ptPalette[1].g,
                                 ptPalette[1].b, ptOrig[i][4]>>
        /\ Len(ptPalette) = 0 => ptData = ptOrig

\* A translucent pixel of another colour has been mapped to the single
\* colour of the palette.
C11_Witness ==
    /\ ptCalled
    /\ Len(ptPalette) = 1
    /\ \E i \in 1..Len(ptOrig) :
           /\ ptOrig[i][4] = 128
           /\ ptOrig[i][1] # ptPalette[1].r
           /\ ptData[i][1] = ptPalette[1].r

(***************************************************************************)
(* SpecHalftone: the lattice spacing of drawHalftone for two densities of  *)
(* the legal range [0, 0.4], taken from the grid k/DensityGrid.            *)
(***************************************************************************)
DensityGrid == 200
LegalDensities == {Rat(k, DensityGrid) : k \in 0..((2 * DensityGrid) \div 5)}

HtInit ==
    /\ htD1 \in LegalDensities
    /\ htD2 \in LegalDensities
    /\ htS1 = 0
    /\ htS2 = 0
    /\ htCalled = FALSE
    /\ PzIdle
    /\ AdvIdle
    /\ SbIdle
    /\ KmIdle
    /\ AppIdle
    /\ PtIdle

\* const spacing = 12 - Math.floor(density * 20), for each of the densities.
ComputeSpacing ==
    /\ ~htCalled
    /\ htS1' = HalftoneSpacing(htD1)
    /\ htS2' = HalftoneSpacing(htD2)
    /\ htCalled' = TRUE
    /\ UNCHANGED <<htD1, htD2>>
    /\ UNCHANGED <<pzVars, advVars, sbVars, kmVars, appVars, ptVars>>

HtNext == ComputeSpacing
SpecHalftone == HtInit /\ [][HtNext]_vars

====
